---- MODULE Spec2Model ----
(***************************************************************************)
(* Model of pkg/cloud/services/compute/instance.go: the provisioning       *)
(* orchestrator (createInstance) and the teardown orchestrator             *)
(* (InstanceDelete / deleteInstance) driving an OpenStack-like backend of  *)
(* ports, trunks and servers.  One step of the model is the local          *)
(* computation of the code up to and including one backend call and the    *)
(* handling of its answer.                                                 *)
(***************************************************************************)
EXTENDS Integers, Sequences, FiniteSets, TLC

(***************************************************************************)
(* Bounds of the model.                                                    *)
(***************************************************************************)
\* longest list of network attachments of an instance descriptor
MaxNets == 3
\* number of backend port / trunk / server identifiers
MaxPorts == 2
MaxTrunks == 2
MaxServers == 1
\* condition checks a poll loop makes before its deadline has passed
MaxPolls == 2
\* longest list of machine tags and of cluster tags
MaxTags == 2

Procs == {1, 2}
PortIds == 1..MaxPorts
TrunkIds == 1..MaxTrunks
ServerIds == 1..MaxServers

(***************************************************************************)
(* Errors.  A backend error carries the class the client gives it; the     *)
(* helpers of pkg/utils/errors classify by that class (the dynamic type of *)
(* the error value).  fmt.Errorf with %v builds a new plain error from the *)
(* message text: the text is kept, the class is not.                       *)
(***************************************************************************)
\* the classes of a failed backend call, besides "notfound" for a resource that
\* is not there
BackendErrs == {"retryable", "other"}
\* where the code does not classify the error, one class stands for both
Unclassified == {"other"}
NoErr == [class |-> "nil", text |-> "", id |-> 0]
BackendErr(c) == [class |-> c, text |-> c, id |-> 0]
Errorf(e) == [class |-> "generic", text |-> e.text, id |-> e.id]
ErrorfID(n, e) == [class |-> "generic", text |-> e.text, id |-> n]
ErrorfOnlyID(n) == [class |-> "generic", text |-> "", id |-> n]
ErrNew(t) == [class |-> "generic", text |-> t, id |-> 0]
ErrWaitTimeout == [class |-> "timeout", text |-> "timed out waiting for the condition", id |-> 0]
IsNotFound(e) == e.class = "notfound"
IsRetryable(e) == e.class = "retryable"

(***************************************************************************)
(* deduplicate: the first occurrence of every string, in order.            *)
(***************************************************************************)
RECURSIVE deduplicateFrom(_, _)
deduplicateFrom(sequence, unique) ==
  IF sequence = <<>> THEN unique
  ELSE LET s == Head(sequence) IN
       IF \E n \in 1..Len(unique) : unique[n] = s
       THEN deduplicateFrom(Tail(sequence), unique)
       ELSE deduplicateFrom(Tail(sequence), Append(unique, s))
\* deduplicate that returns the sequence as it is
deduplicate_KeepAll(sequence) == sequence
deduplicate(sequence) == deduplicateFrom(sequence, <<>>)

(***************************************************************************)
(* Instance descriptors (infrav1.Instance as built by InstanceCreate).     *)
(***************************************************************************)
\* a network whose Subnet pointer is nil (getServerNetworks, no subnet filter)
NilSubnet == "<nil>"
\* The attachments getServerNetworks and InstanceCreate can resolve, in the order
\* they are resolved in: network n1 with its two subnets, network n2 with no
\* subnet pinned, n2 with no subnet filter at all, and an unset cluster network.
NetEntries ==
  << [id |-> "n1", subnet |-> "s1"],
     [id |-> "n1", subnet |-> "s2"],
     [id |-> "n2", subnet |-> ""],
     [id |-> "n2", subnet |-> NilSubnet],
     [id |-> "",   subnet |-> ""] >>
RECURSIVE EntriesAt(_)
EntriesAt(S) ==
  IF S = {} THEN <<>>
  ELSE LET m == CHOOSE x \in S : \A y \in S : x <= y IN
       <<NetEntries[m]>> \o EntriesAt(S \ {m})
NetLists ==
  { EntriesAt(S) : S \in { T \in SUBSET (1..Len(NetEntries)) :
                             Cardinality(T) >= 1 /\ Cardinality(T) <= MaxNets } }
\* the subnet the backend takes a fixed IP from when the port pins none
DefaultSubnet(net) == IF net = "n1" THEN "s1" ELSE "s3"
\* the image service: id and name of every image
ImageStore == { [id |-> "i1", name |-> "ubuntu"],
                [id |-> "i2", name |-> "dup"],
                [id |-> "i3", name |-> "dup"] }
ImageNames == {"", "ubuntu", "dup", "absent"}
AccessSubnets == {"", "s2"}
MachineTags == <<"a", "b">>
ClusterTags == <<"a", "c">>
Descriptors ==
  { [name |-> "m1", image |-> im, nets |-> ns, subnet |-> sn, trunk |-> tr,
     machineTags |-> MachineTags, clusterTags |-> ClusterTags,
     tags |-> deduplicate(MachineTags \o ClusterTags)] :
    im \in ImageNames, ns \in NetLists, sn \in AccessSubnets, tr \in BOOLEAN }

NoIP == <<>>
NoInstance == [id |-> 0, state |-> "<nil>"]
\* machine.Spec.ProviderID: nil, a string NewProviderID rejects, or a server's id
NoProviderID == [kind |-> "nil", id |-> 0]
BadProviderID == [kind |-> "malformed", id |-> 0]
ProviderIDOf(n) == [kind |-> "id", id |-> n]

VARIABLES
  procs,        \* the invocations that may run (fixed)
  desc,         \* desc[p]: the descriptor of p's machine (fixed)
  trunkSupport, \* whether the backend lists the "trunk" extension (fixed)
  ports,        \* backend: the ports
  trunks,       \* backend: the trunks
  servers,      \* backend: the servers
  providerID,   \* providerID[p]: machine.Spec.ProviderID as the caller recorded it
  pc,           \* pc[p]: position of p's invocation, "idle" between invocations
  loc,          \* loc[p]: the local variables of p's invocation
  calls,        \* calls[p]: the backend calls of p's invocation so far
  result,       \* result[p]: what p's last invocation returned
  prev          \* prev[p]: how the invocation before the last one ended

vars == <<procs, desc, trunkSupport, ports, trunks, servers, providerID,
          pc, loc, calls, result, prev>>

NoResult == [op |-> "", kind |-> "none", at |-> "", err |-> NoErr, inst |-> NoInstance]
Failure(o, a, e) == [op |-> o, kind |-> "error", at |-> a, err |-> e, inst |-> NoInstance]
Success(o, in) == [op |-> o, kind |-> "ok", at |-> "", err |-> NoErr, inst |-> in]
Panic(o, a) == [op |-> o, kind |-> "panic", at |-> a, err |-> NoErr, inst |-> NoInstance]

InitLoc ==
  [ k |-> 0,              \* index of the loop in progress
    imageID |-> "",
    accessIPv4 |-> NoIP,
    portsList |-> <<>>,
    port |-> 0,
    trunk |-> 0,
    cleanup |-> "",       \* which failure deletePorts was called for
    cause |-> NoErr,      \* the error that failure carried
    serverID |-> 0,
    polls |-> 0,
    ifaces |-> <<>>,      \* instanceInterfaces
    trunkInfo |-> <<>>,
    created |-> {},       \* ports this invocation created
    reused |-> {} ]       \* ports this invocation found and reused

(***************************************************************************)
(* Backend identifiers are opaque: a new resource gets an identifier that  *)
(* nothing refers to any more.                                             *)
(***************************************************************************)
Range(s) == { s[n] : n \in 1..Len(s) }
PortIdsInUse ==
  { q.id : q \in ports } \cup { t.port : t \in trunks }
    \cup UNION { Range(s.ifaces) : s \in servers }
    \cup UNION { Range(loc[p].portsList) \cup Range(loc[p].ifaces) \cup loc[p].created
                 \cup loc[p].reused \cup {loc[p].port} : p \in Procs }
TrunkIdsInUse ==
  { t.id : t \in trunks }
    \cup UNION { Range(loc[p].trunkInfo) \cup {loc[p].trunk} : p \in Procs }
ServerIdsInUse ==
  { s.id : s \in servers } \cup { loc[p].serverID : p \in Procs }
    \cup { providerID[p].id : p \in Procs }
Min(S) == CHOOSE x \in S : \A y \in S : x <= y
FreePortIds == PortIds \ PortIdsInUse
FreeTrunkIds == TrunkIds \ TrunkIdsInUse
FreeServerIds == ServerIds \ ServerIdsInUse

PortById(n) == CHOOSE q \in ports : q.id = n
PortExists(n) == \E q \in ports : q.id = n
TrunkExists(n) == \E t \in trunks : t.id = n
ServerExists(n) == \E s \in servers : s.id = n
ServerById(n) == CHOOSE s \in servers : s.id = n

Init ==
  /\ procs = {1}
  /\ \E d \in Descriptors : desc = [p \in Procs |-> d]
  /\ trunkSupport \in BOOLEAN
  /\ \A p \in Procs : desc[p].trunk => trunkSupport
  /\ ports = {}
  /\ trunks = {}
  /\ servers = {}
  /\ providerID = [p \in Procs |-> NoProviderID]
  /\ pc = [p \in Procs |-> "idle"]
  /\ loc = [p \in Procs |-> InitLoc]
  /\ calls = [p \in Procs |-> <<>>]
  /\ result = [p \in Procs |-> NoResult]
  /\ prev = [p \in Procs |-> "none"]

Goto(p, l) == pc' = [pc EXCEPT ![p] = l]
SetLoc(p, l) == loc' = [loc EXCEPT ![p] = l]
Return(p, r) == /\ pc' = [pc EXCEPT ![p] = "idle"]
                /\ result' = [result EXCEPT ![p] = r]
\* one entry of calls: the call, the resource it names, the class of the answer
\* ("ok" or the error's), and the identifiers a list call returned
Entry(o, n, r, out) == [op |-> o, id |-> n, res |-> r, out |-> out]
Call(p, o, n, r) == calls' = [calls EXCEPT ![p] = Append(@, Entry(o, n, r, <<>>))]
CallOut(p, o, n, out) == calls' = [calls EXCEPT ![p] = Append(@, Entry(o, n, "ok", out))]

Continue(p, label, l) ==
  /\ Goto(p, label)
  /\ SetLoc(p, l)
  /\ result' = [result EXCEPT ![p] = NoResult]
Finish(p, l, r) ==
  /\ Return(p, r)
  /\ SetLoc(p, l)

(***************************************************************************)
(* createInstance                                                          *)
(***************************************************************************)

\* getImageID with a name no image carries resolved to the empty image id
getImageID_AbsentIsEmpty(imageName, resp) ==
  IF imageName = "" THEN [id |-> "", err |-> NoErr]
  ELSE IF resp # "ok" THEN [id |-> "", err |-> BackendErr(resp)]
  ELSE LET allImages == { im \in ImageStore : im.name = imageName } IN
       IF Cardinality(allImages) = 1
       THEN [id |-> (CHOOSE im \in allImages : TRUE).id, err |-> NoErr]
       ELSE IF Cardinality(allImages) = 0
       THEN [id |-> "", err |-> NoErr]
       ELSE [id |-> "", err |-> ErrNew("too many images with the name were found")]

\* getImageID for the answer resp of images.List: <<image id, error>>
getImageID(imageName, resp) ==
  IF imageName = "" THEN [id |-> "", err |-> NoErr]
  ELSE IF resp # "ok" THEN [id |-> "", err |-> BackendErr(resp)]
  ELSE LET allImages == { im \in ImageStore : im.name = imageName } IN
       IF Cardinality(allImages) = 0
       THEN [id |-> "", err |-> ErrNew("no image with the name could be found")]
       ELSE IF Cardinality(allImages) = 1
       THEN [id |-> (CHOOSE im \in allImages : TRUE).id, err |-> NoErr]
       ELSE [id |-> "", err |-> ErrNew("too many images with the name were found")]

\* what createInstance returns once deletePorts has returned errd
deletePortsReturn(p, l, errd) ==
  IF l.cleanup = "subnet"
  THEN IF errd # NoErr
       THEN Finish(p, l, Failure("createInstance", "access-subnet-cleanup", Errorf(errd)))
       ELSE Finish(p, l, Failure("createInstance", "access-subnet", l.cause))
  ELSE IF errd # NoErr
       THEN Finish(p, l, Failure("createInstance", "server-create-cleanup", Errorf(errd)))
       ELSE Finish(p, l, Failure("createInstance", "server-create", Errorf(l.cause)))

\* deletePortsBegin with the ports this invocation created only
deletePortsBegin_CreatedOnly(p, l) ==
  LET mine == SelectSeq(l.portsList, LAMBDA n : n \in l.created) IN
  IF mine = <<>>
  THEN deletePortsReturn(p, l, NoErr)
  ELSE Continue(p, "deletePorts.Get", [l EXCEPT !.portsList = mine, !.k = 1])

\* deletePorts(is, portsList) is entered: the loop over nets starts
deletePortsBegin(p, l) ==
  IF l.portsList = <<>>
  THEN deletePortsReturn(p, l, NoErr)
  ELSE Continue(p, "deletePorts.Get", [l EXCEPT !.k = 1])

\* the networks loop is over: the access-address check
AfterNetworks(p, l) ==
  IF desc[p].subnet # "" /\ l.accessIPv4 = NoIP
  THEN deletePortsBegin(p, [l EXCEPT !.cleanup = "subnet",
                                     !.cause = ErrNew("no ports with fixed IPs found on Subnet")])
  ELSE Continue(p, "flavors.IDFromName", l)

\* the end of one iteration of the networks loop
NextNetwork(p, l) ==
  IF l.k < Len(desc[p].nets)
  THEN Continue(p, "ports.List", [l EXCEPT !.k = @ + 1])
  ELSE AfterNetworks(p, l)

\* GotPort with the entry of portsList appended for a created port only
GotPort_ReusedNotListed(p, l, port) ==
  LET l2 == [l EXCEPT !.accessIPv4 = IF desc[p].subnet \in port.fixedIPs
                                      THEN <<desc[p].subnet, port.id>> ELSE @,
                      !.portsList = IF port.id \in l.created THEN Append(@, port.id) ELSE @,
                      !.port = port.id] IN
  IF desc[p].trunk
  THEN Continue(p, "trunks.List", l2)
  ELSE NextNetwork(p, l2)

\* a port was found or created: its fixed IPs, the entry of portsList, the trunk
GotPort(p, l, port) ==
  LET l2 == [l EXCEPT !.accessIPv4 = IF desc[p].subnet \in port.fixedIPs
                                      THEN <<desc[p].subnet, port.id>> ELSE @,
                      !.portsList = Append(@, port.id),
                      !.port = port.id] IN
  IF desc[p].trunk
  THEN Continue(p, "trunks.List", l2)
  ELSE NextNetwork(p, l2)

createInstance_getImageID(p) ==
  /\ p \in procs
  /\ pc[p] = "idle"
  /\ prev' = [prev EXCEPT ![p] = result[p].kind]
  /\ \E resp \in {"ok"} \cup Unclassified :
       LET r == getImageID(desc[p].image, resp) IN
       /\ calls' = [calls EXCEPT ![p] =
                      IF desc[p].image = "" THEN <<>>
                      ELSE <<Entry("images.List", 0, resp, <<>>)>>]
       /\ IF r.err # NoErr
          THEN Finish(p, InitLoc, Failure("createInstance", "image", Errorf(r.err)))
          ELSE NextNetwork(p, [InitLoc EXCEPT !.imageID = r.id])
  /\ UNCHANGED <<procs, desc, trunkSupport, ports, trunks, servers, providerID>>

\* ListPorts that finds no port at all
ListPorts_Nothing(name, networkID) == {}

\* ListPorts with the lookup by network only, whatever the name of the port
ListPorts_AnyName(name, networkID) == { q \in ports : q.net = networkID }

\* ListPorts with the lookup keyed by a name the ports do not carry
ListPorts_ByOtherName(name, networkID) ==
  { q \in ports : q.name = "cluster" /\ q.net = networkID }

\* the ports ports.List returns for ListOpts{Name, NetworkID}
ListPorts(name, networkID) == { q \in ports : q.name = name /\ q.net = networkID }

createInstance_listPorts(p) ==
  /\ pc[p] = "ports.List"
  /\ LET i == desc[p]
         l == loc[p]
         network == i.nets[l.k]
     IN
     IF network.id = ""
     THEN /\ Finish(p, l, Failure("createInstance", "network-id",
                                  ErrNew("no network was found or provided")))
          /\ UNCHANGED calls
     ELSE \/ \E e \in Unclassified :
               /\ Call(p, "ports.List", 0, e)
               /\ Finish(p, l, Failure("createInstance", "port-list", Errorf(BackendErr(e))))
          \/ LET portList == ListPorts(i.name, network.id) IN
             /\ Call(p, "ports.List", 0, "ok")
             /\ IF portList = {}
                THEN Continue(p, "createPort", l)
                ELSE \E port \in portList :
                       GotPort(p, [l EXCEPT !.reused = @ \cup ({port.id} \ l.created)], port)
  /\ UNCHANGED <<procs, desc, trunkSupport, ports, trunks, servers, providerID, prev>>

\* createPort: the port the backend builds for ports.CreateOpts
createPort(n, name, net) ==
  [id |-> n, name |-> name, net |-> net.id,
   fixedIPs |-> {IF net.subnet # "" THEN net.subnet ELSE DefaultSubnet(net.id)}]

createInstance_createPort(p) ==
  /\ pc[p] = "createPort"
  /\ LET i == desc[p]
         l == loc[p]
         network == i.nets[l.k]
     IN
     IF network.subnet = NilSubnet
     THEN /\ Finish(p, l, Panic("createInstance", "createPort"))
          /\ UNCHANGED <<calls, ports>>
     ELSE \/ \E e \in Unclassified :
               /\ Call(p, "ports.Create", 0, e)
               /\ Finish(p, l, Failure("createInstance", "port-create",
                                       Errorf(Errorf(BackendErr(e)))))
               /\ UNCHANGED ports
          \/ /\ FreePortIds # {}
             /\ LET port == createPort(Min(FreePortIds), i.name, network) IN
                /\ Call(p, "ports.Create", port.id, "ok")
                /\ ports' = ports \cup {port}
                /\ GotPort(p, [l EXCEPT !.created = @ \cup {port.id}], port)
  /\ UNCHANGED <<procs, desc, trunkSupport, trunks, servers, providerID, prev>>

\* ListTrunks that finds no trunk at all
ListTrunks_Nothing(name, portID) == {}

\* the trunks trunks.List returns for ListOpts{Name, PortID}
ListTrunks(name, portID) == { t \in trunks : t.name = name /\ t.port = portID }

createInstance_listTrunks(p) ==
  /\ pc[p] = "trunks.List"
  /\ LET i == desc[p]
         l == loc[p]
     IN
     \/ \E e \in Unclassified :
          /\ Call(p, "trunks.List", l.port, e)
          /\ Finish(p, l, Failure("createInstance", "trunk-list", Errorf(BackendErr(e))))
     \/ LET trunkList == ListTrunks(i.name, l.port) IN
        /\ Call(p, "trunks.List", l.port, "ok")
        /\ IF trunkList = {}
           THEN Continue(p, "trunks.Create", l)
           ELSE \E trunk \in trunkList :
                  Continue(p, "attributestags.ReplaceAll", [l EXCEPT !.trunk = trunk.id])
  /\ UNCHANGED <<procs, desc, trunkSupport, ports, trunks, servers, providerID, prev>>

createInstance_createTrunk(p) ==
  /\ pc[p] = "trunks.Create"
  /\ LET i == desc[p]
         l == loc[p]
     IN
     \/ \E e \in Unclassified :
          /\ Call(p, "trunks.Create", 0, e)
          /\ Finish(p, l, Failure("createInstance", "trunk-create", Errorf(BackendErr(e))))
          /\ UNCHANGED trunks
     \/ /\ FreeTrunkIds # {}
        /\ LET newTrunk == [id |-> Min(FreeTrunkIds), name |-> i.name,
                            port |-> l.port, tags |-> <<>>] IN
           /\ Call(p, "trunks.Create", newTrunk.id, "ok")
           /\ trunks' = trunks \cup {newTrunk}
           /\ Continue(p, "attributestags.ReplaceAll", [l EXCEPT !.trunk = newTrunk.id])
  /\ UNCHANGED <<procs, desc, trunkSupport, ports, servers, providerID, prev>>

createInstance_tagTrunk(p) ==
  /\ pc[p] = "attributestags.ReplaceAll"
  /\ LET i == desc[p]
         l == loc[p]
     IN
     \/ \E e \in Unclassified \cup (IF TrunkExists(l.trunk) THEN {} ELSE {"notfound"}) :
          /\ Call(p, "attributestags.ReplaceAll", l.trunk, e)
          /\ Finish(p, l, Failure("createInstance", "trunk-tag", Errorf(BackendErr(e))))
          /\ UNCHANGED trunks
     \/ /\ TrunkExists(l.trunk)
        /\ Call(p, "attributestags.ReplaceAll", l.trunk, "ok")
        /\ trunks' = { IF t.id = l.trunk THEN [t EXCEPT !.tags = i.tags] ELSE t : t \in trunks }
        /\ NextNetwork(p, l)
  /\ UNCHANGED <<procs, desc, trunkSupport, ports, servers, providerID, prev>>

deletePorts_Get(p) ==
  /\ pc[p] = "deletePorts.Get"
  /\ LET l == loc[p]
         n == l.portsList[l.k]
     IN
     \/ /\ ~PortExists(n)
        /\ Call(p, "ports.Get", n, "notfound")
        /\ deletePortsReturn(p, l, NoErr)
     \/ \E e \in Unclassified :
          /\ Call(p, "ports.Get", n, e)
          /\ Continue(p, "deletePorts.Delete", l)
     \/ /\ PortExists(n)
        /\ Call(p, "ports.Get", n, "ok")
        /\ Continue(p, "deletePorts.Delete", l)
  /\ UNCHANGED <<procs, desc, trunkSupport, ports, trunks, servers, providerID, prev>>

deletePorts_Delete(p) ==
  /\ pc[p] = "deletePorts.Delete"
  /\ LET l == loc[p]
         n == l.portsList[l.k]
     IN
     \/ \E e \in Unclassified \cup (IF PortExists(n) THEN {} ELSE {"notfound"}) :
          /\ Call(p, "ports.Delete", n, e)
          /\ deletePortsReturn(p, l, BackendErr(e))
          /\ UNCHANGED ports
     \/ /\ PortExists(n)
        /\ Call(p, "ports.Delete", n, "ok")
        /\ ports' = { q \in ports : q.id # n }
        /\ IF l.k < Len(l.portsList)
           THEN Continue(p, "deletePorts.Get", [l EXCEPT !.k = @ + 1])
           ELSE deletePortsReturn(p, l, NoErr)
  /\ UNCHANGED <<procs, desc, trunkSupport, trunks, servers, providerID, prev>>

createInstance_flavor(p) ==
  /\ pc[p] = "flavors.IDFromName"
  /\ LET l == loc[p] IN
     \/ \E e \in Unclassified :
          /\ Call(p, "flavors.IDFromName", 0, e)
          /\ Finish(p, l, Failure("createInstance", "flavor", Errorf(BackendErr(e))))
     \/ /\ Call(p, "flavors.IDFromName", 0, "ok")
        /\ Continue(p, "servers.Create", l)
  /\ UNCHANGED <<procs, desc, trunkSupport, ports, trunks, servers, providerID, prev>>

createInstance_createServer(p) ==
  /\ pc[p] = "servers.Create"
  /\ LET i == desc[p]
         l == loc[p]
     IN
     \/ \E e \in Unclassified :
          /\ Call(p, "servers.Create", 0, e)
          /\ deletePortsBegin(p, [l EXCEPT !.cleanup = "server", !.cause = BackendErr(e)])
          /\ UNCHANGED servers
     \/ /\ FreeServerIds # {}
        /\ LET server == [id |-> Min(FreeServerIds), name |-> i.name,
                          status |-> "BUILD", imageRef |-> l.imageID,
                          networks |-> l.portsList,
                          ifaces |-> deduplicate(l.portsList),
                          accessIPv4 |-> l.accessIPv4, tags |-> i.tags] IN
           /\ Call(p, "servers.Create", server.id, "ok")
           /\ servers' = servers \cup {server}
           /\ Continue(p, "poll.GetInstance", [l EXCEPT !.serverID = server.id, !.polls = 0])
  /\ UNCHANGED <<procs, desc, trunkSupport, ports, trunks, providerID, prev>>

\* serverToInstance
serverToInstance(v) == [id |-> v.id, state |-> v.status]

\* GetInstance with not-found returned as an error like any other
GetInstance_NotFoundIsError(resourceID, resp) ==
  IF resourceID = 0
  THEN [instance |-> NoInstance, err |-> ErrNew("resourceId should be specified to get detail")]
  ELSE IF resp # "ok"
  THEN [instance |-> NoInstance, err |-> Errorf(BackendErr(resp))]
  ELSE [instance |-> serverToInstance(ServerById(resourceID)), err |-> NoErr]

\* GetInstance(resourceID) for the answer resp of servers.Get: <<instance, err>>
GetInstance(resourceID, resp) ==
  IF resourceID = 0
  THEN [instance |-> NoInstance, err |-> ErrNew("resourceId should be specified to get detail")]
  ELSE IF resp # "ok"
  THEN IF IsNotFound(BackendErr(resp))
       THEN [instance |-> NoInstance, err |-> NoErr]
       ELSE [instance |-> NoInstance, err |-> Errorf(BackendErr(resp))]
  ELSE [instance |-> serverToInstance(ServerById(resourceID)), err |-> NoErr]

\* the answers servers.Get can give for server n
ServerGetAnswers(n) ==
  BackendErrs \cup (IF ServerExists(n) THEN {"ok"} ELSE {"notfound"})

\* createInstance_poll with the ports rolled back when the deadline has passed
createInstance_poll_Rollback(p) ==
  /\ pc[p] = "poll.GetInstance"
  /\ LET l == loc[p] IN
     \/ /\ l.polls >= 1
        /\ deletePortsBegin(p, [l EXCEPT !.cleanup = "server", !.cause = ErrWaitTimeout])
        /\ UNCHANGED <<calls, providerID>>
     \/ /\ l.polls < MaxPolls
        /\ \E resp \in ServerGetAnswers(l.serverID) :
             LET r == GetInstance(l.serverID, resp)
                 l2 == [l EXCEPT !.polls = @ + 1]
             IN
             /\ Call(p, "servers.Get", l.serverID, resp)
             /\ IF r.err # NoErr \/ r.instance = NoInstance
                THEN Finish(p, l2, Failure("createInstance", "poll",
                                           ErrorfID(l.serverID, r.err)))
                     /\ UNCHANGED providerID
                ELSE IF r.instance.state = "ACTIVE"
                THEN /\ Finish(p, l2, Success("createInstance", r.instance))
                     /\ providerID' = [providerID EXCEPT ![p] = ProviderIDOf(r.instance.id)]
                ELSE Continue(p, "poll.GetInstance", l2) /\ UNCHANGED providerID
  /\ UNCHANGED <<procs, desc, trunkSupport, ports, trunks, servers, prev>>

createInstance_poll(p) ==
  /\ pc[p] = "poll.GetInstance"
  /\ LET l == loc[p] IN
     \/ /\ l.polls >= 1
        /\ Finish(p, l, Failure("createInstance", "poll-timeout",
                                ErrorfID(l.serverID, ErrWaitTimeout)))
        /\ UNCHANGED <<calls, providerID>>
     \/ /\ l.polls < MaxPolls
        /\ \E resp \in ServerGetAnswers(l.serverID) :
             LET r == GetInstance(l.serverID, resp)
                 l2 == [l EXCEPT !.polls = @ + 1]
             IN
             /\ Call(p, "servers.Get", l.serverID, resp)
             /\ IF r.err # NoErr
                THEN IF IsRetryable(r.err)
                     THEN Continue(p, "poll.GetInstance", l2) /\ UNCHANGED providerID
                     ELSE /\ Finish(p, l2, Failure("createInstance", "poll",
                                                   ErrorfID(l.serverID, r.err)))
                          /\ UNCHANGED providerID
                ELSE IF r.instance = NoInstance
                THEN Finish(p, l2, Panic("createInstance", "poll")) /\ UNCHANGED providerID
                ELSE IF r.instance.state = "ACTIVE"
                THEN /\ Finish(p, l2, Success("createInstance", r.instance))
                     /\ providerID' = [providerID EXCEPT ![p] = ProviderIDOf(r.instance.id)]
                ELSE Continue(p, "poll.GetInstance", l2) /\ UNCHANGED providerID
  /\ UNCHANGED <<procs, desc, trunkSupport, ports, trunks, servers, prev>>

(***************************************************************************)
(* InstanceDelete and deleteInstance                                       *)
(***************************************************************************)

\* instanceInterfaces of server n: the ports attached to it
Interfaces(n) == ServerById(n).ifaces

\* the trunks trunks.List returns for ListOpts{PortID: n}
TrunksOfPort(n) == { t \in trunks : t.port = n }

\* the interface loop goes on with the next interface, or to the server delete
NextInterface(p, l) ==
  IF l.k < Len(l.ifaces)
  THEN Continue(p, "attachinterfaces.Delete", [l EXCEPT !.k = @ + 1])
  ELSE Continue(p, "servers.Delete", l)

\* InstanceDelete without the shortcut for a server that has no interface
InstanceDelete_NoShortcut(p) ==
  /\ p \in procs
  /\ pc[p] = "idle"
  /\ prev' = [prev EXCEPT ![p] = result[p].kind]
  /\ \E pid \in {providerID[p], BadProviderID} :
       IF pid.kind = "nil"
       THEN /\ Finish(p, InitLoc, Success("InstanceDelete", NoInstance))
            /\ calls' = [calls EXCEPT ![p] = <<>>]
       ELSE IF pid.kind = "malformed"
       THEN /\ Finish(p, InitLoc, Failure("InstanceDelete", "provider-id",
                                          ErrNew("providerID is malformed")))
            /\ calls' = [calls EXCEPT ![p] = <<>>]
       ELSE LET l == [InitLoc EXCEPT !.serverID = pid.id] IN
            \/ \E e \in Unclassified \cup (IF ServerExists(pid.id) THEN {} ELSE {"notfound"}) :
                 /\ calls' = [calls EXCEPT ![p] =
                                <<Entry("attachinterfaces.List", pid.id, e, <<>>)>>]
                 /\ Finish(p, l, Failure("InstanceDelete", "interfaces-list", BackendErr(e)))
            \/ /\ ServerExists(pid.id)
               /\ calls' = [calls EXCEPT ![p] =
                              <<Entry("attachinterfaces.List", pid.id, "ok", Interfaces(pid.id))>>]
               /\ LET instanceInterfaces == Interfaces(pid.id) IN
                  Continue(p, "getTrunkSupport", [l EXCEPT !.ifaces = instanceInterfaces])
  /\ UNCHANGED <<procs, desc, trunkSupport, ports, trunks, servers, providerID>>

\* InstanceDelete with the interfaces looked up even when no provider id is set
InstanceDelete_NilLooksUp(p) ==
  /\ p \in procs
  /\ pc[p] = "idle"
  /\ prev' = [prev EXCEPT ![p] = result[p].kind]
  /\ \E pid \in {providerID[p], BadProviderID} :
       IF pid.kind = "nil"
       THEN /\ Finish(p, InitLoc, Failure("InstanceDelete", "interfaces-list",
                                          BackendErr("notfound")))
            /\ calls' = [calls EXCEPT ![p] =
                           <<Entry("attachinterfaces.List", 0, "notfound", <<>>)>>]
       ELSE IF pid.kind = "malformed"
       THEN /\ Finish(p, InitLoc, Failure("InstanceDelete", "provider-id",
                                          ErrNew("providerID is malformed")))
            /\ calls' = [calls EXCEPT ![p] = <<>>]
       ELSE LET l == [InitLoc EXCEPT !.serverID = pid.id] IN
            \/ \E e \in Unclassified \cup (IF ServerExists(pid.id) THEN {} ELSE {"notfound"}) :
                 /\ calls' = [calls EXCEPT ![p] =
                                <<Entry("attachinterfaces.List", pid.id, e, <<>>)>>]
                 /\ Finish(p, l, Failure("InstanceDelete", "interfaces-list", BackendErr(e)))
            \/ /\ ServerExists(pid.id)
               /\ calls' = [calls EXCEPT ![p] =
                              <<Entry("attachinterfaces.List", pid.id, "ok", Interfaces(pid.id))>>]
               /\ LET instanceInterfaces == Interfaces(pid.id) IN
                  IF Len(instanceInterfaces) < 1
                  THEN Continue(p, "servers.Delete", l)
                  ELSE Continue(p, "getTrunkSupport", [l EXCEPT !.ifaces = instanceInterfaces])
  /\ UNCHANGED <<procs, desc, trunkSupport, ports, trunks, servers, providerID>>

\* InstanceDelete up to deleteInstance's attachinterfaces.List
InstanceDelete(p) ==
  /\ p \in procs
  /\ pc[p] = "idle"
  /\ prev' = [prev EXCEPT ![p] = result[p].kind]
  /\ \E pid \in {providerID[p], BadProviderID} :
       IF pid.kind = "nil"
       THEN /\ Finish(p, InitLoc, Success("InstanceDelete", NoInstance))
            /\ calls' = [calls EXCEPT ![p] = <<>>]
       ELSE IF pid.kind = "malformed"
       THEN /\ Finish(p, InitLoc, Failure("InstanceDelete", "provider-id",
                                          ErrNew("providerID is malformed")))
            /\ calls' = [calls EXCEPT ![p] = <<>>]
       ELSE LET l == [InitLoc EXCEPT !.serverID = pid.id] IN
            \/ \E e \in Unclassified \cup (IF ServerExists(pid.id) THEN {} ELSE {"notfound"}) :
                 /\ calls' = [calls EXCEPT ![p] =
                                <<Entry("attachinterfaces.List", pid.id, e, <<>>)>>]
                 /\ Finish(p, l, Failure("InstanceDelete", "interfaces-list", BackendErr(e)))
            \/ /\ ServerExists(pid.id)
               /\ calls' = [calls EXCEPT ![p] =
                              <<Entry("attachinterfaces.List", pid.id, "ok", Interfaces(pid.id))>>]
               /\ LET instanceInterfaces == Interfaces(pid.id) IN
                  IF Len(instanceInterfaces) < 1
                  THEN Continue(p, "servers.Delete", l)
                  ELSE Continue(p, "getTrunkSupport", [l EXCEPT !.ifaces = instanceInterfaces])
  /\ UNCHANGED <<procs, desc, trunkSupport, ports, trunks, servers, providerID>>

deleteInstance_getTrunkSupport(p) ==
  /\ pc[p] = "getTrunkSupport"
  /\ LET l == loc[p] IN
     \/ \E e \in Unclassified :
          /\ Call(p, "extensions.List", 0, e)
          /\ Finish(p, l, Failure("InstanceDelete", "extensions", Errorf(BackendErr(e))))
     \/ /\ Call(p, "extensions.List", 0, "ok")
        /\ NextInterface(p, l)
  /\ UNCHANGED <<procs, desc, trunkSupport, ports, trunks, servers, providerID, prev>>

\* AfterDetach with the port deleted at once, trunks or not
AfterDetach_SkipTrunks(p, l) ==
  Continue(p, "ports.Delete", [l EXCEPT !.polls = 0])

\* an interface is detached: its trunks are looked up when the backend has
\* trunks, else its port is deleted
AfterDetach(p, l) ==
  IF trunkSupport
  THEN Continue(p, "delete.trunks.List", l)
  ELSE Continue(p, "ports.Delete", [l EXCEPT !.polls = 0])

deleteInstance_detach(p) ==
  /\ pc[p] = "attachinterfaces.Delete"
  /\ LET l == loc[p]
         port == l.ifaces[l.k]
         attached == ServerExists(l.serverID) /\ port \in Range(Interfaces(l.serverID))
     IN
     \/ \E e \in Unclassified \cup (IF attached THEN {} ELSE {"notfound"}) :
          /\ Call(p, "attachinterfaces.Delete", port, e)
          /\ Finish(p, l, Failure("InstanceDelete", "detach", BackendErr(e)))
          /\ UNCHANGED servers
     \/ /\ attached
        /\ Call(p, "attachinterfaces.Delete", port, "ok")
        /\ servers' = { IF s.id = l.serverID
                        THEN [s EXCEPT !.ifaces = SelectSeq(@, LAMBDA x : x # port)]
                        ELSE s : s \in servers }
        /\ AfterDetach(p, l)
  /\ UNCHANGED <<procs, desc, trunkSupport, ports, trunks, providerID, prev>>

deleteInstance_listTrunks(p) ==
  /\ pc[p] = "delete.trunks.List"
  /\ LET l == loc[p]
         port == l.ifaces[l.k]
     IN
     \/ \E e \in Unclassified :
          /\ Call(p, "trunks.List", port, e)
          /\ Finish(p, l, Failure("InstanceDelete", "trunk-list", BackendErr(e)))
     \/ \E trunkInfo \in { sq \in [1..Cardinality(TrunksOfPort(port)) -> TrunkIds] :
                             Range(sq) = { t.id : t \in TrunksOfPort(port) } } :
          /\ CallOut(p, "trunks.List", port, trunkInfo)
          /\ IF Len(trunkInfo) = 1
             THEN Continue(p, "trunks.Delete", [l EXCEPT !.trunkInfo = trunkInfo, !.polls = 0])
             ELSE Continue(p, "ports.Delete", [l EXCEPT !.trunkInfo = trunkInfo, !.polls = 0])
  /\ UNCHANGED <<procs, desc, trunkSupport, ports, trunks, servers, providerID, prev>>

deleteInstance_deleteTrunk(p) ==
  /\ pc[p] = "trunks.Delete"
  /\ LET l == loc[p]
         n == l.trunkInfo[1]
         l2 == [l EXCEPT !.polls = @ + 1]
     IN
     \/ /\ l.polls >= 1
        /\ Finish(p, l, Failure("InstanceDelete", "trunk-delete-timeout", ErrorfOnlyID(n)))
        /\ UNCHANGED <<calls, trunks>>
     \/ /\ l.polls < MaxPolls
        /\ \E e \in BackendErrs \cup (IF TrunkExists(n) THEN {} ELSE {"notfound"}) :
             /\ Call(p, "trunks.Delete", n, e)
             /\ IF IsRetryable(BackendErr(e))
                THEN Continue(p, "trunks.Delete", l2)
                ELSE Finish(p, l2, Failure("InstanceDelete", "trunk-delete", ErrorfOnlyID(n)))
             /\ UNCHANGED trunks
     \/ /\ l.polls < MaxPolls
        /\ TrunkExists(n)
        /\ Call(p, "trunks.Delete", n, "ok")
        /\ trunks' = { t \in trunks : t.id # n }
        /\ Continue(p, "ports.Delete", [l2 EXCEPT !.polls = 0])
  /\ UNCHANGED <<procs, desc, trunkSupport, ports, servers, providerID, prev>>

deleteInstance_deletePort(p) ==
  /\ pc[p] = "ports.Delete"
  /\ LET l == loc[p]
         n == l.ifaces[l.k]
         l2 == [l EXCEPT !.polls = @ + 1]
     IN
     \/ /\ l.polls >= 1
        /\ Finish(p, l, Failure("InstanceDelete", "port-delete-timeout", ErrorfOnlyID(n)))
        /\ UNCHANGED <<calls, ports>>
     \/ /\ l.polls < MaxPolls
        /\ \E e \in BackendErrs \cup (IF PortExists(n) THEN {} ELSE {"notfound"}) :
             /\ Call(p, "ports.Delete", n, e)
             /\ IF IsRetryable(BackendErr(e))
                THEN Continue(p, "ports.Delete", l2)
                ELSE Finish(p, l2, Failure("InstanceDelete", "port-delete", ErrorfOnlyID(n)))
             /\ UNCHANGED ports
     \/ /\ l.polls < MaxPolls
        /\ PortExists(n)
        /\ Call(p, "ports.Delete", n, "ok")
        /\ ports' = { q \in ports : q.id # n }
        /\ NextInterface(p, [l2 EXCEPT !.polls = 0])
  /\ UNCHANGED <<procs, desc, trunkSupport, trunks, servers, providerID, prev>>

deleteInstance_deleteServer(p) ==
  /\ pc[p] = "servers.Delete"
  /\ LET l == loc[p] IN
     \/ \E e \in Unclassified \cup (IF ServerExists(l.serverID) THEN {} ELSE {"notfound"}) :
          /\ Call(p, "servers.Delete", l.serverID, e)
          /\ Finish(p, l, Failure("InstanceDelete", "server-delete", BackendErr(e)))
          /\ UNCHANGED servers
     \/ /\ ServerExists(l.serverID)
        /\ Call(p, "servers.Delete", l.serverID, "ok")
        /\ servers' = { IF s.id = l.serverID THEN [s EXCEPT !.status = "DELETING"] ELSE s :
                        s \in servers }
        /\ Continue(p, "delete.poll.GetInstance", [l EXCEPT !.polls = 0])
  /\ UNCHANGED <<procs, desc, trunkSupport, ports, trunks, providerID, prev>>

InstanceDelete_poll(p) ==
  /\ pc[p] = "delete.poll.GetInstance"
  /\ LET l == loc[p] IN
     \/ /\ l.polls >= 1
        /\ Finish(p, l, Failure("InstanceDelete", "poll-timeout",
                                ErrorfID(l.serverID, ErrWaitTimeout)))
        /\ UNCHANGED calls
     \/ /\ l.polls < MaxPolls
        /\ \E resp \in ServerGetAnswers(l.serverID) :
             LET r == GetInstance(l.serverID, resp)
                 l2 == [l EXCEPT !.polls = @ + 1]
             IN
             /\ Call(p, "servers.Get", l.serverID, resp)
             /\ IF r.err # NoErr
                THEN IF IsNotFound(r.err)
                     THEN Finish(p, l2, Success("InstanceDelete", NoInstance))
                     ELSE Finish(p, l2, Failure("InstanceDelete", "poll",
                                                ErrorfID(l.serverID, r.err)))
                ELSE Continue(p, "delete.poll.GetInstance", l2)
  /\ UNCHANGED <<procs, desc, trunkSupport, ports, trunks, servers, providerID, prev>>

(***************************************************************************)
(* The environment: the process running an invocation stops, the backend   *)
(* moves a server on.                                                      *)
(***************************************************************************)
Crash(p) ==
  /\ pc[p] # "idle"
  /\ Finish(p, InitLoc, [NoResult EXCEPT !.kind = "crashed"])
  /\ calls' = [calls EXCEPT ![p] = <<>>]
  /\ UNCHANGED <<procs, desc, trunkSupport, ports, trunks, servers, providerID, prev>>

BackendProgress ==
  /\ \E s \in servers :
       \/ /\ s.status = "BUILD"
          /\ \E st \in {"ACTIVE", "ERROR"} :
               servers' = (servers \ {s}) \cup {[s EXCEPT !.status = st]}
       \/ /\ s.status = "DELETING"
          /\ servers' = servers \ {s}
  /\ UNCHANGED <<procs, desc, trunkSupport, ports, trunks, providerID,
                 pc, loc, calls, result, prev>>

Next ==
  \/ \E p \in Procs :
       \/ createInstance_getImageID(p)
       \/ createInstance_listPorts(p)
       \/ createInstance_createPort(p)
       \/ createInstance_listTrunks(p)
       \/ createInstance_createTrunk(p)
       \/ createInstance_tagTrunk(p)
       \/ deletePorts_Get(p)
       \/ deletePorts_Delete(p)
       \/ createInstance_flavor(p)
       \/ createInstance_createServer(p)
       \/ createInstance_poll(p)
       \/ InstanceDelete(p)
       \/ deleteInstance_getTrunkSupport(p)
       \/ deleteInstance_detach(p)
       \/ deleteInstance_listTrunks(p)
       \/ deleteInstance_deleteTrunk(p)
       \/ deleteInstance_deletePort(p)
       \/ deleteInstance_deleteServer(p)
       \/ InstanceDelete_poll(p)
       \/ Crash(p)
  \/ BackendProgress

Spec == Init /\ [][Next]_vars

(***************************************************************************)
(* The properties.                                                         *)
(***************************************************************************)
Last(sq) == sq[Len(sq)]
\* p's last invocation was createInstance and it returned an error at one of `places`
CreateFailedAt(p, places) ==
  /\ pc[p] = "idle"
  /\ result[p].op = "createInstance"
  /\ result[p].kind = "error"
  /\ result[p].at \in places
NetworkIDs(i) == { i.nets[n].id : n \in 1..Len(i.nets) }

\* C1: with the invocations for one instance name run one at a time (a crashed
\* invocation followed by a new one included), the backend never holds two
\* ports for the same instance name and network id.
C1_OnePortPerNameAndNetwork ==
  \A q1, q2 \in ports : (q1.name = q2.name /\ q1.net = q2.net) => q1 = q2

\* an invocation that follows a crashed one has found and reused a port for
\* each of its networks and holds one port per network
C1_Witness ==
  \E p \in procs :
    /\ prev[p] = "crashed"
    /\ pc[p] = "servers.Create"
    /\ loc[p].created = {}
    /\ Cardinality(loc[p].reused) = 2
    /\ Cardinality(ports) = Cardinality(NetworkIDs(desc[p]))

\* C2: when createInstance returns the access-subnet error (and its cleanup
\* reported no failure of its own), it created no server and none of the ports
\* it created during the invocation is left in the backend.
C2_AccessSubnetFailureLeavesNoCreatedPort ==
  \A p \in procs :
    CreateFailedAt(p, {"access-subnet"}) =>
      /\ loc[p].serverID = 0
      /\ \A n \in loc[p].created : ~PortExists(n)

\* C3: when createInstance returns the server-create error (and its cleanup
\* reported no failure of its own), none of the ports it created during the
\* invocation is left in the backend.
C3_ServerCreateFailureLeavesNoCreatedPort ==
  \A p \in procs :
    CreateFailedAt(p, {"server-create"}) =>
      \A n \in loc[p].created : ~PortExists(n)

\* C4: when createInstance fails at a later port creation, at a trunk lookup,
\* creation or tagging, or at flavor resolution, the ports it created earlier in
\* the invocation have been deleted when it returns.
C4_LaterFailureLeavesNoCreatedPort ==
  \A p \in procs :
    CreateFailedAt(p, {"port-create", "trunk-list", "trunk-create", "trunk-tag", "flavor"}) =>
      \A n \in loc[p].created : ~PortExists(n)

CleanupPlaces ==
  {"access-subnet", "access-subnet-cleanup", "server-create", "server-create-cleanup"}
\* the ports p's invocation called ports.Delete for
PortDeleteCalls(p) ==
  { calls[p][j].id : j \in { h \in 1..Len(calls[p]) : calls[p][h].op = "ports.Delete" } }

C6_SuccessYieldsOnePortPerNetwork ==
  \A p \in procs :
    (pc[p] = "idle" /\ result[p].op = "createInstance" /\ result[p].kind = "ok") =>
      LET i == desc[p]
          own == { q \in ports : q.name = i.name }
          server == ServerById(result[p].inst.id)
      IN
      /\ Cardinality(own) = Cardinality(NetworkIDs(i))
      /\ { q.net : q \in own } = NetworkIDs(i)
      /\ Range(server.networks) = { q.id : q \in own }
      /\ Len(server.networks) = Len(i.nets)
      /\ \A n \in 1..Len(i.nets) : PortById(server.networks[n]).net = i.nets[n].id

\* a creation for two distinct networks has succeeded
C6_Witness ==
  \E p \in procs :
    /\ pc[p] = "idle" /\ result[p].op = "createInstance" /\ result[p].kind = "ok"
    /\ Len(desc[p].nets) = 2
    /\ Cardinality(NetworkIDs(desc[p])) = 2
    /\ loc[p].created # {}

\* C7: when the last answer InstanceDelete's disappearance poll got was "not
\* found", InstanceDelete has returned success.
C7_NotFoundEndsDeletePoll ==
  \A p \in procs :
    ( /\ pc[p] = "idle"
      /\ result[p].op = "InstanceDelete"
      /\ calls[p] # <<>>
      /\ Last(calls[p]).op = "servers.Get"
      /\ Last(calls[p]).res = "notfound" ) =>
        result[p].kind = "ok"

\* C8: InstanceDelete does not return an error when the answer of its last
\* teardown call (interface list, detach, trunk, port or server delete) was
\* "not found".
C8_NotFoundIsSuccess ==
  \A p \in procs :
    ( /\ pc[p] = "idle"
      /\ result[p].op = "InstanceDelete"
      /\ calls[p] # <<>>
      /\ Last(calls[p]).op \in {"attachinterfaces.List", "attachinterfaces.Delete",
                                "trunks.Delete", "ports.Delete", "servers.Delete"}
      /\ Last(calls[p]).res = "notfound" ) =>
        result[p].kind = "ok"

\* the calls of a teardown: calls[p] when p's invocation is (or was) deleteInstance
Teardown(p) ==
  IF calls[p] # <<>> /\ calls[p][1].op = "attachinterfaces.List" THEN calls[p] ELSE <<>>
Before(log, j, o, n) ==
  \E h \in 1..(j - 1) : log[h].op = o /\ log[h].id = n /\ log[h].res = "ok"

\* C9: in deleteInstance every trunk delete follows the detach of its parent
\* port and a lookup that found exactly that one trunk, on a backend with
\* trunks; every port delete follows the detach of the port and, where one
\* trunk was found, the completed delete of that trunk; an interface is
\* detached only once the ports of the interfaces before it are deleted; a
\* delete answered with a retryable error is repeated; and the server delete
\* follows the completed port delete of every interface, with no failed step
\* before it.
C9_TeardownOrder ==
  \A p \in procs :
    LET log == Teardown(p)
        ifaces == IF log = <<>> THEN <<>> ELSE log[1].out
    IN
    \A j \in 1..Len(log) :
      /\ log[j].op = "trunks.Delete" =>
           /\ trunkSupport
           /\ \E h \in 1..(j - 1) :
                /\ log[h].op = "trunks.List" /\ log[h].out = <<log[j].id>>
                /\ Before(log, h, "attachinterfaces.Delete", log[h].id)
                /\ \A g \in (h + 1)..(j - 1) :
                     log[g].op = "trunks.Delete" /\ log[g].res = "retryable"
      /\ log[j].op = "ports.Delete" =>
           /\ Before(log, j, "attachinterfaces.Delete", log[j].id)
           /\ trunkSupport =>
                \E h \in 1..(j - 1) :
                  /\ log[h].op = "trunks.List" /\ log[h].id = log[j].id
                  /\ log[h].res = "ok"
                  /\ Len(log[h].out) = 1 =>
                       \E g \in (h + 1)..(j - 1) :
                         /\ log[g].op = "trunks.Delete" /\ log[g].id = log[h].out[1]
                         /\ log[g].res = "ok"
      /\ log[j].op = "attachinterfaces.Delete" =>
           \E m \in 1..Len(ifaces) :
             /\ ifaces[m] = log[j].id
             /\ \A n \in 1..(m - 1) : Before(log, j, "ports.Delete", ifaces[n])
      /\ (log[j].op \in {"trunks.Delete", "ports.Delete"} /\ log[j].res = "retryable"
            /\ j < Len(log)) =>
           log[j + 1].op = log[j].op /\ log[j + 1].id = log[j].id
      /\ log[j].op = "servers.Delete" =>
           /\ \A n \in 1..Len(ifaces) : Before(log, j, "ports.Delete", ifaces[n])
           /\ \A h \in 1..(j - 1) : log[h].res \in {"ok", "retryable"}

\* a teardown has detached an interface, deleted its one trunk at the second
\* attempt, deleted its port and issued the server delete
C9_Witness ==
  \E p \in procs :
    LET log == Teardown(p) IN
    \E a, b, c, d, e \in 1..Len(log) :
      /\ a < b /\ b < c /\ c < d /\ d < e
      /\ log[a].op = "attachinterfaces.Delete" /\ log[a].res = "ok"
      /\ log[b].op = "trunks.Delete" /\ log[b].res = "retryable"
      /\ log[c].op = "trunks.Delete" /\ log[c].res = "ok"
      /\ log[d].op = "ports.Delete" /\ log[d].res = "ok" /\ log[d].id = log[a].id
      /\ log[e].op = "servers.Delete" /\ log[e].res = "ok"

\* C10: the convergence poll of createInstance never ends with an error on a
\* backend answer of the retryable class.
C10_RetryableNeverEndsCreatePoll ==
  \A p \in procs :
    ( /\ pc[p] = "idle"
      /\ result[p].op = "createInstance"
      /\ result[p].kind = "error"
      /\ result[p].at = "poll" ) =>
        Last(calls[p]).res # "retryable"

\* the result places of a poll loop that ran past its deadline
TimeoutPlaces == {"poll-timeout", "trunk-delete-timeout", "port-delete-timeout"}

\* C11: when the last answer a poll loop got (the wait for the active server in
\* createInstance, the trunk delete and the port delete in deleteInstance) was
\* a retryable error, the operation has returned the timeout error of that
\* loop: it names the id of the server, trunk or port and does not carry the
\* transient error.
C11_RetryablePollEndsInTimeoutNamingId ==
  \A p \in procs :
    ( /\ pc[p] = "idle"
      /\ calls[p] # <<>>
      /\ Last(calls[p]).res = "retryable"
      /\ \/ result[p].op = "createInstance" /\ Last(calls[p]).op = "servers.Get"
         \/ result[p].op = "InstanceDelete"
              /\ Last(calls[p]).op \in {"trunks.Delete", "ports.Delete"} ) =>
        /\ result[p].kind = "error"
        /\ result[p].at \in TimeoutPlaces
        /\ result[p].err.id = Last(calls[p]).id
        /\ result[p].err.text # BackendErr("retryable").text

(***************************************************************************)
(* A backend whose servers can also be removed by someone else (an         *)
(* operator, another controller) while an invocation runs.                 *)
(***************************************************************************)
ServerLost ==
  /\ \E s \in servers : servers' = servers \ {s}
  /\ UNCHANGED <<procs, desc, trunkSupport, ports, trunks, providerID,
                 pc, loc, calls, result, prev>>

NextLost == Next \/ ServerLost

SpecLost == Init /\ [][NextLost]_vars

\* C12: createInstance returns an instance only when its last poll found the
\* server in state ACTIVE, and when its last poll found no server it has
\* returned an error.
C12_SuccessOnlyIfActiveElseError ==
  \A p \in procs :
    ( /\ pc[p] = "idle"
      /\ result[p].op = "createInstance"
      /\ calls[p] # <<>>
      /\ Last(calls[p]).op = "servers.Get" ) =>
        /\ result[p].kind = "ok" =>
             Last(calls[p]).res = "ok" /\ result[p].inst.state = "ACTIVE"
        /\ Last(calls[p]).res = "notfound" => result[p].kind = "error"

\* C13: once servers.Create has succeeded, createInstance makes no backend call
\* but the server lookups of its poll, and when the poll has failed (deadline
\* passed or an error that ends it) the server, the ports of its port list and,
\* for a trunk instance, a trunk on each of them are still in the backend.
C13_NoRollbackAfterServerCreated ==
  \A p \in procs :
    /\ \A j \in 1..Len(calls[p]) :
         (calls[p][j].op = "servers.Create" /\ calls[p][j].res = "ok") =>
           \A h \in (j + 1)..Len(calls[p]) : calls[p][h].op = "servers.Get"
    /\ CreateFailedAt(p, {"poll", "poll-timeout"}) =>
         /\ ServerExists(loc[p].serverID)
         /\ \A n \in Range(loc[p].portsList) :
              /\ PortExists(n)
              /\ desc[p].trunk => \E t \in trunks : t.port = n /\ t.name = desc[p].name

\* the wait for a trunk instance on two networks has run past its deadline
C13_Witness ==
  \E p \in procs :
    /\ CreateFailedAt(p, {"poll-timeout"})
    /\ desc[p].trunk
    /\ Cardinality(Range(loc[p].portsList)) = 2
    /\ Cardinality(trunks) = 2
    /\ ServerExists(loc[p].serverID)

\* C14: when the interface list of a teardown came back empty, the only call
\* deleteInstance makes after it is one servers.Delete (the calls after that
\* are the server lookups of InstanceDelete's poll): no detach, no call for a
\* trunk or a port, no look at the extensions.
C14_NoInterfacesOneServerDelete ==
  \A p \in procs :
    LET log == Teardown(p) IN
    (log # <<>> /\ log[1].res = "ok" /\ log[1].out = <<>>) =>
      /\ \A j \in 2..Len(log) :
           log[j].op = IF j = 2 THEN "servers.Delete" ELSE "servers.Get"
      /\ pc[p] # "servers.Delete" => Len(log) >= 2

\* a teardown found a server without interfaces, deleted it and returned
C14_Witness ==
  \E p \in procs :
    LET log == Teardown(p) IN
    /\ pc[p] = "idle"
    /\ Len(log) >= 3
    /\ log[1].res = "ok" /\ log[1].out = <<>>
    /\ log[2].op = "servers.Delete" /\ log[2].res = "ok"

\* C15: an InstanceDelete for a machine with no provider id returns success at
\* once, with no backend call and with the ports, trunks and servers of the
\* backend as they were, at the first invocation and at every later one.
C15_NoProviderIdIsNoOp ==
  [][ \A p \in procs :
        ( /\ pc[p] = "idle"
          /\ providerID[p] = NoProviderID
          /\ result'[p].op = "InstanceDelete"
          /\ result'[p].at # "provider-id"
          /\ (result'[p] # result[p] \/ prev'[p] # prev[p]) ) =>
            /\ pc'[p] = "idle"
            /\ result'[p].kind = "ok"
            /\ calls'[p] = <<>>
            /\ UNCHANGED <<ports, trunks, servers, providerID>> ]_vars

\* InstanceDelete has returned success with no call for the second time in a
\* row, for a machine with no provider id, on a backend that holds a port
C15_Witness ==
  \E p \in procs :
    /\ pc[p] = "idle"
    /\ providerID[p] = NoProviderID
    /\ result[p].op = "InstanceDelete" /\ result[p].kind = "ok"
    /\ prev[p] = "ok"
    /\ calls[p] = <<>>
    /\ ports # {}

\* C16: for every server id and every answer servers.Get can give for it,
\* GetInstance returns no instance and no error when the answer is not-found,
\* no instance and an error (that is not a not-found error) for every other
\* failure, and the instance with no error otherwise.
C16_GetInstanceNotFoundIsAbsent ==
  \A n \in ServerIds : \A resp \in ServerGetAnswers(n) :
    LET r == GetInstance(n, resp) IN
    /\ resp = "notfound" => r.instance = NoInstance /\ r.err = NoErr
    /\ resp \in BackendErrs =>
         r.instance = NoInstance /\ r.err # NoErr /\ ~IsNotFound(r.err)
    /\ resp = "ok" => r.instance # NoInstance /\ r.instance.id = n /\ r.err = NoErr

\* the poll of InstanceDelete has asked for a server the backend no longer has
\* and goes on polling
C16_Witness ==
  \E p \in procs :
    /\ pc[p] = "delete.poll.GetInstance"
    /\ Last(calls[p]).op = "servers.Get" /\ Last(calls[p]).res = "notfound"
    /\ ~ServerExists(loc[p].serverID)
    /\ GetInstance(loc[p].serverID, "notfound").err = NoErr

(***************************************************************************)
(* Tag lists: one trunk instance on one network, with the machine's and    *)
(* the cluster's tags drawn from all short sequences of tags.              *)
(***************************************************************************)
Tags == {"a", "b"}
TagSeqs == UNION { [1..n -> Tags] : n \in 0..MaxTags }
TagDescriptors ==
  { [name |-> "m1", image |-> "", nets |-> <<NetEntries[1]>>, subnet |-> "",
     trunk |-> TRUE, machineTags |-> mt, clusterTags |-> ct,
     tags |-> deduplicate(mt \o ct)] :
    mt \in TagSeqs, ct \in TagSeqs }

InitTags ==
  /\ procs = {1}
  /\ \E d \in TagDescriptors : desc = [p \in Procs |-> d]
  /\ trunkSupport = TRUE
  /\ ports = {}
  /\ trunks = {}
  /\ servers = {}
  /\ providerID = [p \in Procs |-> NoProviderID]
  /\ pc = [p \in Procs |-> "idle"]
  /\ loc = [p \in Procs |-> InitLoc]
  /\ calls = [p \in Procs |-> <<>>]
  /\ result = [p \in Procs |-> NoResult]
  /\ prev = [p \in Procs |-> "none"]

SpecTags == InitTags /\ [][Next]_vars

\* the place of the first occurrence of x in sq
FirstAt(sq, x) == Min({ n \in 1..Len(sq) : sq[n] = x })

\* C17: for every list of machine tags followed by every list of cluster tags,
\* the tag list of the descriptor holds every tag of the input exactly once and
\* no other tag, in the order of the first occurrences in the input; it is the
\* tag list every created server carries and every trunk is tagged with.
C17_TagsUniqueInFirstOccurrenceOrder ==
  \A p \in procs :
    LET sequence == desc[p].machineTags \o desc[p].clusterTags
        unique == desc[p].tags
    IN
    /\ Range(unique) = Range(sequence)
    /\ \A a, b \in 1..Len(unique) :
         /\ unique[a] = unique[b] => a = b
         /\ a < b => FirstAt(sequence, unique[a]) < FirstAt(sequence, unique[b])
    /\ \A s \in servers : s.name = desc[p].name => s.tags = unique
    /\ \A t \in trunks : t.name = desc[p].name => t.tags \in {<<>>, unique}

\* a trunk is tagged and a server created with the two tags left of a list in
\* which one tag came three times
C17_Witness ==
  \E p \in procs :
    /\ desc[p].machineTags = <<"b", "a">>
    /\ desc[p].clusterTags = <<"b", "b">>
    /\ \E t \in trunks : t.tags = <<"b", "a">>
    /\ \E s \in servers : s.tags = <<"b", "a">>

\* C18: when a deleteInstance that follows a failed invocation has returned
\* success (the server delete is issued and InstanceDelete waits for the server
\* to go), none of the ports the server was created with, and no trunk on one
\* of them, is left in the backend.
C18_ReenteredTeardownLeavesNothing ==
  \A p \in procs :
    ( /\ pc[p] = "delete.poll.GetInstance"
      /\ prev[p] = "error"
      /\ ServerExists(loc[p].serverID) ) =>
        \A n \in Range(ServerById(loc[p].serverID).networks) :
          ~PortExists(n) /\ TrunksOfPort(n) = {}

(***************************************************************************)
(* Two invocations at a time, not serialized: for the same instance name   *)
(* or for two names, each for one attachment to the same network.          *)
(***************************************************************************)
InstanceNames == {"m1", "m2"}
ConcDescriptor(name, tr) ==
  [name |-> name, image |-> "", nets |-> <<NetEntries[1]>>, subnet |-> "",
   trunk |-> tr, machineTags |-> MachineTags, clusterTags |-> ClusterTags,
   tags |-> deduplicate(MachineTags \o ClusterTags)]

InitConc ==
  /\ procs = Procs
  /\ \E name \in InstanceNames, tr \in BOOLEAN :
       desc = [p \in Procs |-> ConcDescriptor(IF p = 1 THEN "m1" ELSE name, tr)]
  /\ trunkSupport = TRUE
  /\ ports = {}
  /\ trunks = {}
  /\ servers = {}
  /\ providerID = [p \in Procs |-> NoProviderID]
  /\ pc = [p \in Procs |-> "idle"]
  /\ loc = [p \in Procs |-> InitLoc]
  /\ calls = [p \in Procs |-> <<>>]
  /\ result = [p \in Procs |-> NoResult]
  /\ prev = [p \in Procs |-> "none"]

\* an invocation of p may start: p has made at most one invocation so far
MayInvoke(p) == prev[p] = "none"

NextConc ==
  \/ \E p \in Procs :
       \/ MayInvoke(p) /\ createInstance_getImageID(p)
       \/ createInstance_listPorts(p)
       \/ createInstance_createPort(p)
       \/ createInstance_listTrunks(p)
       \/ createInstance_createTrunk(p)
       \/ createInstance_tagTrunk(p)
       \/ deletePorts_Get(p)
       \/ deletePorts_Delete(p)
       \/ createInstance_flavor(p)
       \/ createInstance_createServer(p)
       \/ createInstance_poll(p)
       \/ MayInvoke(p) /\ InstanceDelete(p)
       \/ deleteInstance_getTrunkSupport(p)
       \/ deleteInstance_detach(p)
       \/ deleteInstance_listTrunks(p)
       \/ deleteInstance_deleteTrunk(p)
       \/ deleteInstance_deletePort(p)
       \/ deleteInstance_deleteServer(p)
       \/ InstanceDelete_poll(p)
  \/ BackendProgress

SpecConc == InitConc /\ [][NextConc]_vars

\* the invocations that run for instance name `name`
InvocationsFor(name) == { p \in procs : desc[p].name = name }

\* C19: with invocations that are not serialized, the find-or-create of ports
\* keeps the ports of one (instance name, network id) pair to at most one for
\* each invocation running for that name, and no fewer: two invocations for the
\* same name can each find no port and each create one (the witness).
C19_AtMostOnePortPerRacingInvocation ==
  \A q \in ports :
    Cardinality({ r \in ports : r.name = q.name /\ r.net = q.net })
      <= Cardinality(InvocationsFor(q.name))

\* two invocations for the same name and network have each looked up the port,
\* found none and created one: the pair has two ports
C19_Witness ==
  \E p1, p2 \in procs :
    /\ p1 # p2
    /\ desc[p1].name = desc[p2].name
    /\ loc[p1].reused = {} /\ loc[p2].reused = {}
    /\ \E q1, q2 \in ports :
         /\ q1 # q2
         /\ q1.name = q2.name /\ q1.net = q2.net
         /\ loc[p1].created = {q1.id}
         /\ loc[p2].created = {q2.id}

\* the ports and trunks p's invocation holds in its local variables
HeldPorts(p) ==
  Range(loc[p].portsList) \cup Range(loc[p].ifaces) \cup loc[p].created \cup loc[p].reused
HeldTrunks(p) == Range(loc[p].trunkInfo) \cup {loc[p].trunk}
\* the ports, trunks and servers of a set that carry another name than `name`
NamedOtherThan(name, resources) == { r \in resources : r.name # name }
\* p takes a step
Steps(p) == pc'[p] # pc[p] \/ loc'[p] # loc[p] \/ calls'[p] # calls[p]

ImagesNamed(imageName) == { im \in ImageStore : im.name = imageName }

\* C21: with an empty image name createInstance asks the image service nothing
\* and creates its server with an empty image reference; with a name that no
\* image or more than one image carries it never gets past the image lookup,
\* so the backend stays without a port, trunk or server; and every invocation
\* that fails at the image lookup has made no other call and leaves the ports,
\* trunks and servers as they were.
C21_ImageGateBeforeAnyMutation ==
  /\ [](\A p \in procs :
          /\ (desc[p].image = "" /\ result[p].op # "InstanceDelete") =>
               /\ \A j \in 1..Len(calls[p]) : calls[p][j].op # "images.List"
               /\ \A s \in servers : s.name = desc[p].name => s.imageRef = ""
          /\ (desc[p].image # "" /\ Cardinality(ImagesNamed(desc[p].image)) # 1) =>
               /\ ports = {} /\ trunks = {} /\ servers = {}
               /\ pc[p] = "idle"
               /\ result[p].op = "createInstance" => result[p].at = "image"
          /\ CreateFailedAt(p, {"image"}) =>
               Len(calls[p]) = 1 /\ calls[p][1].op = "images.List")
  /\ [][ \A p \in procs :
           (Steps(p) /\ pc'[p] = "idle" /\ result'[p].op = "createInstance"
              /\ result'[p].at = "image") =>
             UNCHANGED <<ports, trunks, servers, providerID>> ]_vars

\* createInstance has failed at the image lookup for the second time in a row,
\* for a name two images carry, with the image list as its only call
C21_Witness ==
  \E p \in procs :
    /\ Cardinality(ImagesNamed(desc[p].image)) = 2
    /\ CreateFailedAt(p, {"image"})
    /\ prev[p] = "error"
    /\ calls[p] = <<Entry("images.List", 0, "ok", <<>>)>>
    /\ ports = {}

\* C22: with the invocations for one instance name run one at a time (a crashed
\* invocation followed by a new one included), the backend never holds two
\* trunks for the same instance name and parent port, and an invocation creates
\* a trunk only right after a trunk lookup that found none.
C22_OneTrunkPerNameAndParentPort ==
  /\ \A t1, t2 \in trunks : (t1.name = t2.name /\ t1.port = t2.port) => t1 = t2
  /\ \A p \in procs : \A j \in 1..Len(calls[p]) :
       (calls[p][j].op = "trunks.Create" /\ calls[p][j].res = "ok") =>
         /\ j > 1
         /\ calls[p][j - 1].op = "trunks.List" /\ calls[p][j - 1].res = "ok"
         /\ \A t \in trunks : t.port = calls[p][j - 1].id => t.id = calls[p][j].id

\* an invocation that follows a crashed one has found the trunk of its port,
\* reused and tagged it, and created none
C22_Witness ==
  \E p \in procs :
    /\ desc[p].trunk
    /\ prev[p] = "crashed"
    /\ pc[p] = "flavors.IDFromName"
    /\ \A j \in 1..Len(calls[p]) : calls[p][j].op # "trunks.Create"
    /\ \A n \in Range(loc[p].portsList) :
         Cardinality({ t \in trunks : t.name = desc[p].name /\ t.port = n }) = 1
====
